---- MODULE Spec2Model ----
(***************************************************************************)
(* Model of src/data_proccess.py: process_10G_files, the streaming batch   *)
(* quality-and-cleaning pipeline over 16 Parquet files.                    *)
(*                                                                         *)
(* A pandas cell is a record [isnull, v]: isnull is the NaN/None/NaT       *)
(* sentinel, v the value.  A DataFrame is a sequence of [idx, row], idx    *)
(* being the pandas index label that boolean indexing preserves.           *)
(***************************************************************************)
EXTENDS Integers, Sequences, FiniteSets, TLC

VARIABLES pc, file_paths, batch_size, i, file_path, remaining, batch_idx,
          batch_in, batch_df, total_rows, processed_rows, missing_counts,
          outlier_counts, duplicate_counts, dup_is_np, deleted_rows,
          disk, report, error, folded

vars == <<pc, file_paths, batch_size, i, file_path, remaining, batch_idx,
          batch_in, batch_df, total_rows, processed_rows, missing_counts,
          outlier_counts, duplicate_counts, dup_is_np, deleted_rows,
          disk, report, error, folded>>

-----------------------------------------------------------------------------
(* Bounds of the model *)

\* most rows the files of one run hold together
MaxTotalRows == 2
\* the batch_size parameter of the run
MaxBatchSize == 2
\* longest batch handed to the loop body on its own
MaxLen == 2

-----------------------------------------------------------------------------
(* Program constants *)

NumFiles == 16
PatternLimit == 10
AgeMax == 120
IncomeMax == 1000000000
CreditMin == 300
CreditMax == 850

Columns == {"timestamp", "user_name", "chinese_name", "email", "age", "income",
            "gender", "country", "chinese_address", "purchase_history",
            "is_active", "registration_date", "credit_score", "phone_number"}

OutlierRules == {"age", "income", "credit_score"}

valid_genders == {"Male", "Female", "Other"}

\* the file_paths values tried: the default of the signature and the one
\* the __main__ block passes
FilePathChoices == {"10G_data/part-0000", "30G_data/part-0000"}

-----------------------------------------------------------------------------
(* Cells *)

Num(n) == [isnull |-> FALSE, v |-> n]
NaN == [isnull |-> TRUE, v |-> 0]
Str(s) == [isnull |-> FALSE, v |-> s]
None == [isnull |-> TRUE, v |-> ""]
Chars(s) == [isnull |-> FALSE, v |-> s]
NoChars == [isnull |-> TRUE, v |-> <<>>]
\* is_active cells carry the dtype of their column: int64 in the source
\* files, bool once coerced
Typed(t, s) == [isnull |-> FALSE, t |-> t, v |-> s]

\* comparisons of a numeric column with a scalar: NaN compares False
Lt(c, n) == ~c.isnull /\ c.v < n
Gt(c, n) == ~c.isnull /\ c.v > n
Ge(c, n) == ~c.isnull /\ c.v >= n
Le(c, n) == ~c.isnull /\ c.v =< n

-----------------------------------------------------------------------------
(* Rows the batches are drawn from *)

GoodEmail == <<"a", ".", "b", "@", "c", ".", "c", "o", "m">>

BaseRow ==
  [timestamp |-> Str("2023-01-05"), user_name |-> Str("u1"),
   chinese_name |-> Str("n1"), email |-> Chars(GoodEmail),
   age |-> Num(30), income |-> Num(50000), gender |-> Str("Male"),
   country |-> Str("CN"), chinese_address |-> Str("addr"),
   purchase_history |-> Str("{}"), is_active |-> Typed("int", "1"),
   registration_date |-> Str("2020-02-02"), credit_score |-> Num(700),
   phone_number |-> Str("123")]

AgeCells == {NaN, Num(-1), Num(0), Num(AgeMax), Num(AgeMax + 1)}
IncomeCells == {NaN, Num(-1), Num(0), Num(IncomeMax), Num(IncomeMax + 1)}
CreditCells == {NaN, Num(CreditMin - 1), Num(CreditMin), Num(CreditMax),
                Num(CreditMax + 1)}
EmailCells == {NoChars, Chars(<<>>), Chars(<<"a", "@", "@", "b">>),
               Chars(<<"a", "-", "b", "@", "c", ".", "d", "\n">>),
               Chars(<<"a", " ", "@", "c", ".", "d">>)}
GenderCells == {Str("Female"), Str("nonbinary"), Str("unknown"), None}
TimestampCells == {Str("2023-01-05 00:00:00"), Str("garbage"), Str("n/a")}
ActiveCells == {Typed("int", "0"), Typed("int", "2")}

RichRows ==
  {BaseRow}
  \cup {[BaseRow EXCEPT !.age = c] : c \in AgeCells}
  \cup {[BaseRow EXCEPT !.income = c] : c \in IncomeCells}
  \cup {[BaseRow EXCEPT !.credit_score = c] : c \in CreditCells}
  \cup {[BaseRow EXCEPT !.email = c] : c \in EmailCells}
  \cup {[BaseRow EXCEPT !.gender = c] : c \in GenderCells}
  \cup {[BaseRow EXCEPT !.timestamp = c] : c \in TimestampCells}
  \cup {[BaseRow EXCEPT !.is_active = c] : c \in ActiveCells}
  \cup {[BaseRow EXCEPT !.user_name = None]}

\* the rows of the files of a whole run
RunRows ==
  {BaseRow,
   [BaseRow EXCEPT !.age = Num(AgeMax + 1)],
   [BaseRow EXCEPT !.credit_score = NaN]}

SeqsUpTo(S, n) == UNION {[1..k -> S] : k \in 0..n}

-----------------------------------------------------------------------------
(* DataFrames *)

\* batch.to_pandas(): a fresh RangeIndex
to_pandas(rows) == [k \in 1..Len(rows) |-> [idx |-> k - 1, row |-> rows[k]]]

\* to_parquet(index=False): the rows without the index
Rows(df) == [k \in 1..Len(df) |-> df[k].row]

\* df[mask]: boolean indexing keeps the rows whose mask entry is True
Compress(df, mask) ==
  LET F[k \in 0..Len(df)] ==
        IF k = 0 THEN <<>>
        ELSE IF mask[k] THEN Append(F[k - 1], df[k]) ELSE F[k - 1]
  IN F[Len(df)]

CountTrue(mask) == Cardinality({k \in DOMAIN mask : mask[k]})

\* df.isnull().sum(): per column, the number of null cells
isnull_sum(df) ==
  [c \in Columns |-> Cardinality({k \in 1..Len(df) : df[k].row[c].isnull})]

\* duplicated(keep=False): every member of a group of equal rows
duplicated_keep_false(df) ==
  [k \in 1..Len(df) |->
     \E j \in 1..Len(df) : j # k /\ df[j].row = df[k].row]

\* df.duplicated(): True for a row equal to an earlier row (keep='first')
duplicated(df) ==
  [k \in 1..Len(df) |-> \E j \in 1..(k - 1) : df[j].row = df[k].row]

drop_duplicates(df) ==
  Compress(df, [k \in 1..Len(df) |-> ~duplicated(df)[k]])

-----------------------------------------------------------------------------
(* Scan: lines 39-56 *)

age_outliers(df) ==
  [k \in 1..Len(df) |-> Lt(df[k].row.age, 0) \/ Gt(df[k].row.age, AgeMax)]

income_outliers(df) ==
  [k \in 1..Len(df) |->
     Lt(df[k].row.income, 0) \/ Gt(df[k].row.income, IncomeMax)]

credit_outliers(df) ==
  [k \in 1..Len(df) |->
     Lt(df[k].row.credit_score, CreditMin)
       \/ Gt(df[k].row.credit_score, CreditMax)]

\* len(age_outliers), len(income_outliers), len(credit_outliers)
outlier_lens(df) ==
  [r \in OutlierRules |->
     CASE r = "age" -> CountTrue(age_outliers(df))
       [] r = "income" -> CountTrue(income_outliers(df))
       [] r = "credit_score" -> CountTrue(credit_outliers(df))]

-----------------------------------------------------------------------------
(* Clean: lines 58-88 *)

\* the mask of lines 62-66
range_mask(df) ==
  [k \in 1..Len(df) |->
     /\ Ge(df[k].row.age, 0) /\ Le(df[k].row.age, AgeMax)
     /\ Ge(df[k].row.income, 0) /\ Le(df[k].row.income, IncomeMax)
     /\ Ge(df[k].row.credit_score, CreditMin)
     /\ Le(df[k].row.credit_score, CreditMax)]

range_filter(df) == Compress(df, range_mask(df))

\* pd.to_datetime(col, errors='coerce') on one cell: the text forms pandas
\* parses map to one canonical datetime, everything else becomes NaT
DatetimeOf ==
  [s \in {"2023-01-05", "2023-01-05 00:00:00", "2020-02-02",
          "2020-02-02 00:00:00"} |->
     CASE s \in {"2023-01-05", "2023-01-05 00:00:00"} -> "2023-01-05 00:00:00"
       [] OTHER -> "2020-02-02 00:00:00"]

to_datetime(c) ==
  IF ~c.isnull /\ c.v \in DOMAIN DatetimeOf THEN Str(DatetimeOf[c.v]) ELSE None

\* \w of the pattern, over the characters the model's e-mails use
WordChars == {"a", "b", "c", "d", "m", "o", "_", "0"}
IsWord(ch) == ch \in WordChars
IsLocal(ch) == IsWord(ch) \/ ch \in {".", "-"}

\* re.match(r'^[\w\.-]+@[\w\.-]+\.\w+$', s): $ also matches before a final \n
re_match(s) ==
  LET n == Len(s)
      ends == IF n > 0 /\ s[n] = "\n" THEN {n - 1, n} ELSE {n}
  IN \E e \in ends : \E p \in 2..e : \E q \in (p + 2)..(e - 1) :
       /\ s[p] = "@"
       /\ s[q] = "."
       /\ \A k \in 1..(p - 1) : IsLocal(s[k])
       /\ \A k \in (p + 1)..(q - 1) : IsLocal(s[k])
       /\ \A k \in (q + 1)..e : IsWord(s[k])

\* a non-string (None/NaN) is invalid
is_valid_email(c) == IF c.isnull THEN FALSE ELSE re_match(c.v)

invalid_emails(df) == [k \in 1..Len(df) |-> ~is_valid_email(df[k].row.email)]

email_filter(df) ==
  Compress(df, [k \in 1..Len(df) |-> ~invalid_emails(df)[k]])

normalize_gender(c) ==
  IF ~c.isnull /\ c.v \in valid_genders THEN c ELSE Str("Other")

\* astype(bool): a bool stays, an integer is True unless 0
astype_bool(c) ==
  CASE c.t = "bool" -> c
    [] c.t = "int" -> Typed("bool", IF c.v = "0" THEN "False" ELSE "True")

\* lines 73-74
parse_dates(df) ==
  [k \in 1..Len(df) |->
     [df[k] EXCEPT !.row.timestamp = to_datetime(@),
                   !.row.registration_date = to_datetime(@)]]

\* lines 84-88
rewrite_values(df) ==
  [k \in 1..Len(df) |->
     [df[k] EXCEPT !.row.gender = normalize_gender(@),
                   !.row.is_active = astype_bool(@)]]

\* lines 62-88 in order
Clean(df) ==
  rewrite_values(email_filter(parse_dates(drop_duplicates(range_filter(df)))))

\* the length taken only after the range filter of lines 62-66
original_len_late(df) == Len(range_filter(df))

\* line 59
original_len(df) == Len(df)

\* the drop counted against the range-filtered frame alone
removed_by_range_only(df, cleaned) == original_len(df) - Len(range_filter(df))

\* line 91: original_len - len(batch_df)
removed(df, cleaned) == original_len(df) - Len(cleaned)

-----------------------------------------------------------------------------
(* The driver: lines 8-35, 90-127 *)

Min(a, b) == IF a < b THEN a ELSE b

\* lines 23-26
FilePath(fp, k) ==
  IF k < PatternLimit
    THEN fp \o ToString(k) \o ".parquet"
    ELSE "10G_data/part-000" \o ToString(k) \o ".parquet"

\* an artifact named from the file index alone
ArtifactNameNoBatch(f, b) ==
  "new_data/30G_cleaned_batch_" \o ToString(f) \o ".parquet"

\* line 94
ArtifactName(f, b) ==
  "new_data/30G_cleaned_batch_" \o ToString(f) \o "_" \o ToString(b)
    \o ".parquet"

\* Series = Series: the batch's counts replace the running ones
SeriesAssign(a, b) == b

\* Series += Series: elementwise over the index
SeriesAdd(a, b) == [c \in DOMAIN a |-> a[c] + b[c]]

\* line 30: total_rows += file_rows
add_file_rows(total, n) == total + n

\* count / total_rows on a Series element or a numpy integer
Ratio(count, total) ==
  IF total # 0 THEN [kind |-> "num", num |-> count, den |-> total]
  ELSE IF count = 0 THEN [kind |-> "nan", num |-> 0, den |-> 0]
  ELSE [kind |-> "inf", num |-> count, den |-> 0]

NoReport ==
  [returned |-> FALSE, total_rows |-> 0, processed_rows |-> 0,
   deleted_rows |-> 0, missing_counts |-> [c \in Columns |-> 0],
   missing_ratio |-> [c \in Columns |-> Ratio(0, 0)],
   outlier_counts |-> [r \in OutlierRules |-> 0],
   outlier_ratio |-> [r \in OutlierRules |-> Ratio(0, 0)],
   duplicate_counts |-> 0, duplicate_ratio |-> Ratio(0, 0)]

\* lines 10-19
Start ==
  /\ i = 0
  /\ file_path = ""
  /\ batch_idx = 0
  /\ batch_in = <<>>
  /\ batch_df = <<>>
  /\ total_rows = 0
  /\ processed_rows = 0
  /\ missing_counts = [c \in Columns |-> 0]
  /\ outlier_counts = [r \in OutlierRules |-> 0]
  /\ duplicate_counts = 0
  /\ dup_is_np = FALSE
  /\ deleted_rows = 0
  /\ disk = [n \in {} |-> <<>>]
  /\ report = NoReport
  /\ error = "none"
  /\ folded = <<>>

Init ==
  /\ pc = "open"
  /\ file_paths \in FilePathChoices
  /\ batch_size = MaxBatchSize
  /\ remaining = <<>>
  /\ Start

\* lines 24-34: the file opens; its metadata row count joins total_rows
OpenFile ==
  /\ pc = "open"
  /\ \E rows \in SeqsUpTo(RunRows, MaxTotalRows - total_rows) :
       /\ remaining' = rows
       /\ total_rows' = add_file_rows(total_rows, Len(rows))
  /\ file_path' = FilePath(file_paths, i)
  /\ batch_idx' = 0
  /\ pc' = "iter"
  /\ UNCHANGED <<file_paths, batch_size, i, batch_in, batch_df,
                 processed_rows, missing_counts, outlier_counts,
                 duplicate_counts, dup_is_np, deleted_rows, disk, report,
                 error, folded>>

\* line 28 raises and the driver skips to the next file
OpenFailSkip ==
  /\ pc = "open"
  /\ i + 1 < NumFiles
  /\ file_path' = FilePath(file_paths, i)
  /\ error' = "SourceUnavailable"
  /\ i' = i + 1
  /\ UNCHANGED <<pc, file_paths, batch_size, remaining, batch_idx, batch_in,
                 batch_df, total_rows, processed_rows, missing_counts,
                 outlier_counts, duplicate_counts, dup_is_np, deleted_rows,
                 disk, report, folded>>

\* line 28 raises: nothing catches it
OpenFail ==
  /\ pc = "open"
  /\ file_path' = FilePath(file_paths, i)
  /\ error' = "SourceUnavailable"
  /\ pc' = "aborted"
  /\ UNCHANGED <<file_paths, batch_size, i, remaining, batch_idx, batch_in,
                 batch_df, total_rows, processed_rows, missing_counts,
                 outlier_counts, duplicate_counts, dup_is_np, deleted_rows,
                 disk, report, folded>>

\* lines 36-96: one pass of the loop body over the batch just read
LoopBody(rows) ==
  LET df == to_pandas(rows)
      cleaned == Clean(df)
      name == ArtifactName(i, batch_idx)
  IN /\ batch_in' = df
     /\ missing_counts' = SeriesAdd(missing_counts, isnull_sum(df))
     /\ duplicate_counts' = duplicate_counts + CountTrue(duplicated(df))
     /\ dup_is_np' = TRUE
     /\ outlier_counts' = SeriesAdd(outlier_counts, outlier_lens(df))
     /\ batch_df' = cleaned
     /\ deleted_rows' = deleted_rows + removed(df, cleaned)
     /\ disk' = [n \in DOMAIN disk \cup {name} |->
                   IF n = name THEN Rows(cleaned) ELSE disk[n]]
     /\ processed_rows' = processed_rows + Len(cleaned)
     /\ batch_idx' = batch_idx + 1
     /\ folded' = Append(folded, [file |-> i, idx |-> batch_idx,
                                  rows |-> rows])

\* lines 80-85 on a frame that is already empty when the e-mail step
\* starts: apply() on the empty object column returns an empty object
\* Series, which pandas may take as a list of column labels rather than a
\* boolean mask; batch_df then has no columns and batch_df['gender'] raises
\* KeyError.  Whether it does depends on the column dtype and the pandas
\* build, so both outcomes are behaviours of the model
EmptyBeforeEmail(rows) ==
  Len(drop_duplicates(range_filter(to_pandas(rows)))) = 0

\* lines 37-56 have run when line 85 raises
BodyRaises(rows) ==
  LET df == to_pandas(rows)
  IN /\ batch_in' = df
     /\ missing_counts' = SeriesAdd(missing_counts, isnull_sum(df))
     /\ duplicate_counts' = duplicate_counts + CountTrue(duplicated(df))
     /\ dup_is_np' = TRUE
     /\ outlier_counts' = SeriesAdd(outlier_counts, outlier_lens(df))
     /\ batch_df' = <<>>
     /\ error' = "KeyError"
     /\ pc' = "aborted"
     /\ UNCHANGED <<deleted_rows, disk, processed_rows, batch_idx, folded>>

\* line 35: iter_batches yields the next rows, at most batch_size of them
\* (fewer where a row group of the file ends)
NextBatch ==
  /\ pc = "iter"
  /\ remaining # <<>>
  /\ \E n \in 1..Min(batch_size, Len(remaining)) :
       /\ LoopBody(SubSeq(remaining, 1, n))
       /\ remaining' = SubSeq(remaining, n + 1, Len(remaining))
  /\ UNCHANGED <<pc, file_paths, batch_size, i, file_path, total_rows,
                 report, error>>

BatchKeyError ==
  /\ pc = "iter"
  /\ remaining # <<>>
  /\ \E n \in 1..Min(batch_size, Len(remaining)) :
       /\ EmptyBeforeEmail(SubSeq(remaining, 1, n))
       /\ BodyRaises(SubSeq(remaining, 1, n))
       /\ remaining' = SubSeq(remaining, n + 1, Len(remaining))
  /\ UNCHANGED <<file_paths, batch_size, i, file_path, total_rows, report>>

\* line 35 raises while decoding a batch
DecodeFail ==
  /\ pc = "iter"
  /\ remaining # <<>>
  /\ error' = "SourceCorrupt"
  /\ pc' = "aborted"
  /\ UNCHANGED <<file_paths, batch_size, i, file_path, remaining, batch_idx,
                 batch_in, batch_df, total_rows, processed_rows,
                 missing_counts, outlier_counts, duplicate_counts, dup_is_np,
                 deleted_rows, disk, report, folded>>

\* the iterator is exhausted: line 22 moves to the next file
EndFile ==
  /\ pc = "iter"
  /\ remaining = <<>>
  /\ IF i + 1 < NumFiles
       THEN i' = i + 1 /\ pc' = "open"
       ELSE i' = i /\ pc' = "stats"
  /\ UNCHANGED <<file_paths, batch_size, file_path, remaining, batch_idx,
                 batch_in, batch_df, total_rows, processed_rows,
                 missing_counts, outlier_counts, duplicate_counts, dup_is_np,
                 deleted_rows, disk, report, error, folded>>

\* lines 101-127.  duplicate_counts is still the Python int 0 when no batch
\* was folded, and int / 0 raises ZeroDivisionError
Finalize ==
  /\ pc = "stats"
  /\ IF total_rows = 0 /\ ~dup_is_np
       THEN /\ error' = "ZeroDivisionError"
            /\ pc' = "crashed"
            /\ report' = report
       ELSE /\ report' =
                 [returned |-> TRUE, total_rows |-> total_rows,
                  processed_rows |-> processed_rows,
                  deleted_rows |-> deleted_rows,
                  missing_counts |-> missing_counts,
                  missing_ratio |->
                    [c \in Columns |-> Ratio(missing_counts[c], total_rows)],
                  outlier_counts |-> outlier_counts,
                  outlier_ratio |->
                    [r \in OutlierRules |->
                       Ratio(outlier_counts[r], total_rows)],
                  duplicate_counts |-> duplicate_counts,
                  duplicate_ratio |-> Ratio(duplicate_counts, total_rows)]
            /\ pc' = "done"
            /\ error' = error
  /\ UNCHANGED <<file_paths, batch_size, i, file_path, remaining, batch_idx,
                 batch_in, batch_df, total_rows, processed_rows,
                 missing_counts, outlier_counts, duplicate_counts, dup_is_np,
                 deleted_rows, disk, folded>>

Next ==
  \/ OpenFile
  \/ OpenFail
  \/ NextBatch
  \/ BatchKeyError
  \/ DecodeFail
  \/ EndFile
  \/ Finalize

Spec == Init /\ [][Next]_vars

-----------------------------------------------------------------------------
(* One batch through the loop body, then its written artifact through it again *)

LastArtifact == ArtifactName(i, batch_idx - 1)

InitClean ==
  /\ pc = "batch"
  /\ file_paths = "10G_data/part-0000"
  /\ batch_size = MaxLen
  /\ remaining \in SeqsUpTo(RichRows, MaxLen)
  /\ Start

CleanBatch ==
  /\ pc = "batch"
  /\ LoopBody(remaining)
  /\ remaining' = <<>>
  /\ pc' = "cleaned"
  /\ UNCHANGED <<file_paths, batch_size, i, file_path, total_rows, report,
                 error>>

\* the artifact just written is read back and cleaned as a batch of its own
ReClean ==
  /\ pc = "cleaned"
  /\ LoopBody(disk[LastArtifact])
  /\ pc' = "recleaned"
  /\ UNCHANGED <<file_paths, batch_size, i, file_path, remaining, total_rows,
                 report, error>>

\* either pass meets a frame that is empty before the e-mail step
CleanRaises ==
  /\ pc \in {"batch", "cleaned"}
  /\ LET rows == IF pc = "batch" THEN remaining ELSE disk[LastArtifact]
     IN /\ EmptyBeforeEmail(rows)
        /\ BodyRaises(rows)
  /\ UNCHANGED <<file_paths, batch_size, i, file_path, remaining, total_rows,
                 report>>

NextClean ==
  \/ CleanBatch
  \/ ReClean
  \/ CleanRaises

SpecClean == InitClean /\ [][NextClean]_vars

TypeOK ==
  /\ pc \in {"open", "iter", "stats", "done", "crashed", "aborted", "batch",
             "cleaned", "recleaned"}
  /\ i \in 0..(NumFiles - 1)
  /\ total_rows \in 0..MaxTotalRows
  /\ error \in {"none", "SourceUnavailable", "SourceCorrupt",
                "ZeroDivisionError", "KeyError"}

-----------------------------------------------------------------------------
(* Properties *)

FileErrors == {"SourceUnavailable", "SourceCorrupt"}

SumLens(log) ==
  LET F[k \in 0..Len(log)] ==
        IF k = 0 THEN 0 ELSE F[k - 1] + Len(log[k].rows)
  IN F[Len(log)]

Indices(df) == {df[k].idx : k \in 1..Len(df)}

IsOutlier(df, k) ==
  age_outliers(df)[k] \/ income_outliers(df)[k] \/ credit_outliers(df)[k]

\* C2: range filtering drops a row exactly when the row satisfies one of the
\* three outlier predicates of the scan; a null age, income or credit_score
\* is not an outlier and is not dropped
C2_RangeDropsOnlyOutliers ==
  pc = "cleaned" =>
    \A k \in 1..Len(batch_in) :
      (batch_in[k].idx \notin Indices(range_filter(batch_in)))
        <=> IsOutlier(batch_in, k)

\* C3: cleaning the already cleaned output of a batch removes no further row
C3_CleanIdempotent ==
  pc = "recleaned" => Len(batch_df) = Len(batch_in)

\* C4: a run that observed 0 rows and folded no batch completes with a report
\* whose three ratios are all NaN, and raises no division error
C4_ZeroRowsReport ==
  (pc \in {"done", "crashed"} /\ total_rows = 0 /\ folded = <<>>) =>
    /\ pc = "done"
    /\ error = "none"
    /\ report.returned
    /\ \A c \in Columns : report.missing_ratio[c].kind = "nan"
    /\ \A r \in OutlierRules : report.outlier_ratio[r].kind = "nan"
    /\ report.duplicate_ratio.kind = "nan"

\* C5: a step that fails to open or decode a file aborts the run, returns no
\* report and leaves every artifact written so far as it was; once failed,
\* no further file is opened
C5_FailureAborts ==
  [][error' \in FileErrors =>
       /\ pc' = "aborted"
       /\ ~report'.returned
       /\ disk' = disk
       /\ (error \in FileErrors => i' = i /\ file_path' = file_path)]_vars

C5_Witness ==
  /\ pc = "aborted"
  /\ error = "SourceCorrupt"
  /\ i >= 1
  /\ batch_idx = 1
  /\ ArtifactName(i, 0) \in DOMAIN disk

DistinctRows(rows) == Cardinality({rows[k] : k \in 1..Len(rows)})

SumDups(log) ==
  LET F[k \in 0..Len(log)] ==
        IF k = 0 THEN 0
        ELSE F[k - 1] + (Len(log[k].rows) - DistinctRows(log[k].rows))
  IN F[Len(log)]

PassesFilters(r) ==
  /\ range_mask(to_pandas(<<r>>))[1]
  /\ is_valid_email(r.email)

\* C6: each group of k equal rows of one batch adds k-1 to duplicate_counts,
\* rows equal to a row of another batch add nothing, and of the equal rows
\* that pass the range and e-mail filters exactly the first is retained
C6_DuplicatesWithinBatch ==
  /\ error # "KeyError" => duplicate_counts = SumDups(folded)
  /\ \A k \in 1..Len(batch_in) :
       PassesFilters(batch_in[k].row) =>
         ((batch_in[k].idx \in Indices(batch_df))
            <=> (\A j \in 1..(k - 1) : batch_in[j].row # batch_in[k].row))

C6_Witness ==
  /\ Len(batch_in) = 2
  /\ batch_in[1].row = batch_in[2].row
  /\ PassesFilters(batch_in[1].row)
  /\ duplicate_counts = 1
  /\ Len(batch_df) = 1
  /\ batch_df[1].idx = 0

\* C7: one artifact per (file index, batch index) processed, empty cleaned
\* batches included; batch indices run 0, 1, ... within each file; distinct
\* pairs have distinct names, so no artifact is overwritten
C7_OneArtifactPerBatch ==
  /\ Cardinality(DOMAIN disk) = Len(folded)
  /\ \A k \in 1..Len(folded) :
       LET e == folded[k] IN
         /\ e.idx = Cardinality({j \in 1..(k - 1) : folded[j].file = e.file})
         /\ ArtifactName(e.file, e.idx) \in DOMAIN disk
         /\ disk[ArtifactName(e.file, e.idx)] = Rows(Clean(to_pandas(e.rows)))
  /\ \A k, j \in 1..Len(folded) :
       k # j => ArtifactName(folded[k].file, folded[k].idx)
                  # ArtifactName(folded[j].file, folded[j].idx)

C7_Witness ==
  /\ pc = "done"
  /\ Len(folded) = 2
  /\ folded[1].file = folded[2].file
  /\ \E n \in DOMAIN disk : disk[n] = <<>>
  /\ \E n \in DOMAIN disk : disk[n] # <<>>

\* C8: the path opened for every file index follows the file_paths parameter:
\* another value of file_paths would open another path
C8_PathFollowsParameter ==
  pc = "iter" =>
    \A q \in FilePathChoices : q # file_paths => FilePath(q, i) # file_path

Counters ==
  [missing |-> missing_counts, outlier |-> outlier_counts,
   dup |-> duplicate_counts, deleted |-> deleted_rows,
   processed |-> processed_rows]

\* what one batch adds to each counter
BatchDelta(rows) ==
  LET df == to_pandas(rows)
      cleaned == Clean(df)
  IN [missing |-> isnull_sum(df), outlier |-> outlier_lens(df),
      dup |-> CountTrue(duplicated(df)), deleted |-> Len(df) - Len(cleaned),
      processed |-> Len(cleaned)]

\* the deltas d folded into zeroed counters in the order p
TotalsIn(d, p) ==
  LET F[k \in 0..Len(d)] ==
        IF k = 0
          THEN [missing |-> [c \in Columns |-> 0],
                outlier |-> [r \in OutlierRules |-> 0],
                dup |-> 0, deleted |-> 0, processed |-> 0]
          ELSE LET acc == F[k - 1]
                   b == d[p[k]]
               IN [missing |-> SeriesAdd(acc.missing, b.missing),
                   outlier |-> SeriesAdd(acc.outlier, b.outlier),
                   dup |-> acc.dup + b.dup,
                   deleted |-> acc.deleted + b.deleted,
                   processed |-> acc.processed + b.processed]
  IN F[Len(d)]

DeltasOf(log) ==
  LET G[k \in 0..Len(log)] ==
        IF k = 0 THEN <<>> ELSE Append(G[k - 1], BatchDelta(log[k].rows))
  IN G[Len(log)]

\* checked where a batch has just been folded in and where the run is over
C9_AnyOrder ==
  ((pc = "iter" /\ batch_idx > 0) \/ pc = "done") =>
    LET d == DeltasOf(folded)
    IN \A p \in Permutations(1..Len(folded)) : TotalsIn(d, p) = Counters

C9_Monotone ==
  /\ \A c \in Columns : missing_counts'[c] >= missing_counts[c]
  /\ \A r \in OutlierRules : outlier_counts'[r] >= outlier_counts[r]
  /\ duplicate_counts' >= duplicate_counts
  /\ deleted_rows' >= deleted_rows
  /\ processed_rows' >= processed_rows
  /\ total_rows' >= total_rows

\* C9: after each batch is folded in and at the end of the run, the totals
\* equal the fold of the same batches in every order, and no counter ever
\* decreases
C9_FoldOrderFree == [](C9_AnyOrder) /\ [][C9_Monotone]_vars

C9_Witness ==
  /\ Len(folded) = 2
  /\ isnull_sum(to_pandas(folded[1].rows))
       # isnull_sum(to_pandas(folded[2].rows))
  /\ outlier_lens(to_pandas(folded[1].rows))
       # outlier_lens(to_pandas(folded[2].rows))

\* C10: processed_rows + deleted_rows is the number of rows of the batches
\* processed so far, and equals total_rows in the report of a completed run
C10_RunAccounting ==
  /\ processed_rows + deleted_rows = SumLens(folded)
  /\ pc = "done" =>
       /\ report.returned
       /\ report.processed_rows + report.deleted_rows = report.total_rows

C10_Witness ==
  /\ pc = "done"
  /\ report.total_rows = 2
  /\ report.deleted_rows = 1
  /\ report.processed_rows = 1
  /\ Len(folded) = 2
  /\ folded[1].file # folded[2].file

====
